---------------------------- MODULE Spec2Model ----------------------------
(***************************************************************************)
(* The memory-matching puzzle of round_1/src/game.ts with the helpers of   *)
(* round_1/src/index.ts: deck construction, the flip/lock/resolve cycle,   *)
(* the clock, best times, victory detection and the delayed callbacks.     *)
(*                                                                         *)
(* Deck positions are 1-based here: position i of the model is index i-1   *)
(* of the source arrays.  Time is Date.now() in milliseconds.  A pending   *)
(* window.setTimeout callback may run at any time at or after its due      *)
(* time, in the order of the due times.                                    *)
(***************************************************************************)
EXTENDS Integers, Sequences, FiniteSets, TLC

VARIABLES
    state,        \* the GameState object (game.ts:49-60, 101)
    timerHandle,  \* TRUE while the 400 ms tick interval is installed
    timers,       \* pending mismatch-reset setTimeout callbacks, in due order
    now,          \* Date.now()
    turn,         \* history: the mismatched pair of this session awaiting its reset
    build,        \* one buildDeck call observed on its own: input and result
    solver,       \* the running call of window.secretSolvePuzzle, if any
    anchor,       \* history: Date.now() at the session's first accepted reveal
    feedback,     \* the 'bad' feedback of mismatches: its timers and the cards marked
    board         \* dataset.state of each card of cardRefs, and the callbacks that will set it

vars == <<state, timerHandle, timers, now, turn, build, solver, anchor, feedback, board>>

-----------------------------------------------------------------------------
(* Bounds of the model *)

\* The registry's pair counts and pool sizes are divided by Shrink (rounded up).
Shrink == 10
\* Input arrives while Date.now() <= MaxNow (milliseconds).
MaxNow == 1550
\* Pending mismatch-reset callbacks.
MaxTimers == 2
\* Longest array handed to shuffle on its own.
MaxLen == 4
\* Largest pair count and largest pool of a registry entry tried in place of
\* the entries of the source.
MaxPairs == 3
MaxPool == 2
\* The solver's loop gives up after MaxGuard pairs (200 in the source).
MaxGuard == 3
MaxMinutes == 100
MaxValue == 120
MaxDigits == 3

-----------------------------------------------------------------------------
(* Constants of the program *)

FLIP_DURATION == 650
MISMATCH_RESET_DELAY == FLIP_DURATION + 900
TICK_INTERVAL == 400
WAIT_AFTER_MATCH == FLIP_DURATION + 300
BAD_FLASH_DURATION == 800
GOOD_FLASH_DURATION == 2000
MATCH_VISUAL_DELAY == 250
SOLVER_GUARD == 200

\* Date.now() is observed at the multiples of TimeStep.
TimeStep == MISMATCH_RESET_DELAY

null == -1

DifficultyKey == {"chill", "zest", "inferno"}

Min(a, b) == IF a < b THEN a ELSE b

Max(a, b) == IF a >= b THEN a ELSE b

Scaled(n) == (n + Shrink - 1) \div Shrink

Range(s) == {s[k] : k \in 1..Len(s)}

\* The registry: pairs and pool of every difficulty (cols and cardAura are
\* layout only).  Pool symbols are named by their place in the source pool.
difficulties ==
    [chill   |-> [key |-> "chill", pairs |-> Scaled(6),
                  pool |-> [k \in 1..Scaled(10) |-> 100 + k]],
     zest    |-> [key |-> "zest", pairs |-> Scaled(8),
                  pool |-> [k \in 1..Scaled(10) |-> 200 + k]],
     inferno |-> [key |-> "inferno", pairs |-> Scaled(12),
                  pool |-> [k \in 1..Scaled(24) |-> 300 + k]]]

defaultDifficulty == "chill"

-----------------------------------------------------------------------------
(* index.ts *)

\* The values Math.floor(Math.random() * (i + 1)) can take at every step of
\* the loop of shuffle, for an array of n elements: rnd[i] \in 1..i.
RandomChoices(n) == {r \in [2..n -> 1..n] : \A i \in 2..n : r[i] <= i}

\* The exchange without temp: arr[j] keeps its value.
Swap_LosesTemp(arr, i, j) == [arr EXCEPT ![i] = arr[j]]

Swap(arr, i, j) == [arr EXCEPT ![i] = arr[j], ![j] = arr[i]]

RECURSIVE ShuffleFrom(_, _, _)
ShuffleFrom(arr, i, rnd) ==
    IF i <= 1 THEN arr ELSE ShuffleFrom(Swap(arr, i, rnd[i]), i - 1, rnd)

\* shuffle: Fisher-Yates on a copy of the input, from the last place down.
shuffle(input, rnd) == ShuffleFrom(input, Len(input), rnd)

\* A call of shuffle as its caller sees it: what the array passed holds
\* afterwards (the loop works on the copy [...input]) and the array returned.
shuffleCall(input, rnd) == [input |-> input, result |-> shuffle(input, rnd)]

-----------------------------------------------------------------------------
(* game.ts: deck construction *)

\* flatMap that forgets the duplicate of every symbol.
FlatMapOnce(picks) == picks

RECURSIVE FlatMapPairs(_)
FlatMapPairs(picks) ==
    IF picks = <<>> THEN <<>>
    ELSE <<Head(picks), Head(picks)>> \o FlatMapPairs(Tail(picks))

\* picks.flatMap((symbol) => [symbol, symbol])
FlatMapTwice(picks) == FlatMapPairs(picks)

Slice(s, n) == SubSeq(s, 1, Min(n, Len(s)))

Picks(config, rnd1) == Slice(shuffle(config.pool, rnd1), config.pairs)

buildDeck(config, rnd1, rnd2) ==
    shuffle(FlatMapTwice(Picks(config, rnd1)), rnd2)

\* Every deck buildDeck can return for the configuration.
BuildDeckOutcomes(config) ==
    UNION {{buildDeck(config, rnd1, rnd2) :
               rnd2 \in RandomChoices(2 * Min(config.pairs, Len(config.pool)))} :
           rnd1 \in RandomChoices(Len(config.pool))}

createInitialState(deck) ==
    [difficulty |-> defaultDifficulty,
     deck |-> deck,
     matched |-> <<>>,
     moves |-> 0,
     elapsedMs |-> 0,
     runningSince |-> null,
     bestTimes |-> [d \in {} |-> 0],
     flipped |-> <<>>,
     locked |-> FALSE,
     victory |-> FALSE]

hasActiveProgress(s) ==
    s.moves > 0 \/ Len(s.matched) > 0 \/ s.elapsedMs > 0 \/ Len(s.flipped) > 0

-----------------------------------------------------------------------------
(* game.ts: the clock.  An environment e is [state, timerHandle, timers]. *)

tickTimer(s, t) ==
    IF s.runningSince = null THEN s
    ELSE [s EXCEPT !.elapsedMs = t - s.runningSince]

\* startTimer taking the path of preserveAnchor: the interval is installed,
\* runningSince is not set.
startTimer_NoAnchor(e, t) ==
    IF e.state.runningSince # null THEN e
    ELSE [e EXCEPT !.timerHandle = TRUE]

\* startTimer() is only ever called without preserveAnchor.
startTimer(e, t) ==
    IF e.state.runningSince # null THEN e
    ELSE [e EXCEPT !.state = tickTimer([e.state EXCEPT !.runningSince = t,
                                                       !.elapsedMs = 0], t),
                   !.timerHandle = TRUE]

\* stopTimer leaving runningSince as it is.
stopTimer_KeepsAnchor(e, t) ==
    [e EXCEPT !.timerHandle = FALSE,
              !.state.elapsedMs = IF e.state.runningSince # null
                                  THEN t - e.state.runningSince
                                  ELSE e.state.elapsedMs]

\* stopTimer keeping the elapsedMs of the latest tick.
stopTimer_KeepsLastTick(e, t) ==
    [e EXCEPT !.timerHandle = FALSE, !.state.runningSince = null]

stopTimer(e, t) ==
    [e EXCEPT !.timerHandle = FALSE,
              !.state = [e.state EXCEPT
                            !.elapsedMs = IF e.state.runningSince # null
                                          THEN t - e.state.runningSince
                                          ELSE e.state.elapsedMs,
                            !.runningSince = null]]

-----------------------------------------------------------------------------
(* game.ts: the flip/lock/resolve protocol *)

\* The feedback of mismatches, fb: the pending timers set by the first
\* setTimeout of queueMismatchReset (kind "flash") and by flashFeedback (kind
\* "clear"), the positions each pending reset callback will work on, and
\* the positions whose card carries data-feedback="bad".
NoFeedback == [pending |-> <<>>, resets |-> <<>>, bad |-> {}]

Without(s, k) == SubSeq(s, 1, k - 1) \o SubSeq(s, k + 1, Len(s))

\* queueMismatchReset as far as the cards are concerned.
queueFeedback(fb, indices, t) ==
    [fb EXCEPT !.pending = Append(fb.pending,
                                  [due |-> t + FLIP_DURATION,
                                   indices |-> indices, kind |-> "flash"]),
               !.resets = Append(fb.resets, indices)]

\* The feedback callback unlocking the session as well.
feedbackCallback_Unlocks(e, fb, k, t) ==
    [e  |-> [e EXCEPT !.state.flipped = <<>>, !.state.locked = FALSE],
     fb |-> [fb EXCEPT !.pending = Without(fb.pending, k)]]

\* The callback of pending timer k: flashFeedback(indices, 'bad', 800) for
\* a flash, the deletion of the marker for a clear.  setFeedback skips the
\* positions that have no card.
feedbackCallback(e, fb, k, t) ==
    LET entry == fb.pending[k]
        cards == entry.indices \cap (1..Len(e.state.deck))
    IN  IF entry.kind = "flash"
        THEN [e  |-> e,
              fb |-> [fb EXCEPT
                         !.bad = fb.bad \cup cards,
                         !.pending = Append(Without(fb.pending, k),
                                            [due |-> t + BAD_FLASH_DURATION,
                                             indices |-> entry.indices,
                                             kind |-> "clear"])]]
        ELSE [e  |-> e,
              fb |-> [fb EXCEPT !.bad = fb.bad \ cards,
                                !.pending = Without(fb.pending, k)]]

\* The calls of setFeedback(idx) in the reset callback.
resetFeedback(fb) ==
    [fb EXCEPT !.bad = fb.bad \ Head(fb.resets), !.resets = Tail(fb.resets)]

\* rebuildBoard: every card is a new element, without marker.
rebuildFeedback(fb) == [fb EXCEPT !.bad = {}]

\* queueMismatchReset locking without scheduling the reset callback.
queueMismatchReset_NoCallback(e, indices, t) ==
    [e EXCEPT !.state.locked = TRUE]

\* queueMismatchReset without state.locked = true.
queueMismatchReset_NoLock(e, indices, t) ==
    [e EXCEPT !.timers = Append(e.timers,
                                [due |-> t + MISMATCH_RESET_DELAY,
                                 stale |-> FALSE])]

queueMismatchReset(e, indices, t) ==
    [e EXCEPT !.state.locked = TRUE,
              !.timers = Append(e.timers,
                                [due |-> t + MISMATCH_RESET_DELAY,
                                 stale |-> FALSE])]

\* The callback unlocking without emptying the flip buffer.
mismatchResetCallback_KeepsBuffer(e) ==
    [e EXCEPT !.state.locked = FALSE]

\* The callback restoring every flag of the session.
mismatchResetCallback_ClearsVictory(e) ==
    [e EXCEPT !.state.flipped = <<>>, !.state.locked = FALSE, !.state.victory = FALSE]

\* The callback of the second setTimeout of queueMismatchReset.
mismatchResetCallback(e) ==
    [e EXCEPT !.state.flipped = <<>>, !.state.locked = FALSE]

\* !previousBest is true for a missing entry and for an entry of 0.
isFalsy(bestTimes, d) == d \notin DOMAIN bestTimes \/ bestTimes[d] = 0

withBest(bestTimes, d, duration) ==
    [k \in DOMAIN bestTimes \cup {d} |-> IF k = d THEN duration ELSE bestTimes[k]]

\* The best time written at the key of the default difficulty.
recordBest_DefaultKey(s) ==
    IF isFalsy(s.bestTimes, s.difficulty) \/ s.elapsedMs < s.bestTimes[s.difficulty]
    THEN [s EXCEPT !.bestTimes = withBest(s.bestTimes, defaultDifficulty, s.elapsedMs)]
    ELSE s

recordBest(s) ==
    IF isFalsy(s.bestTimes, s.difficulty) \/ s.elapsedMs < s.bestTimes[s.difficulty]
    THEN [s EXCEPT !.bestTimes = withBest(s.bestTimes, s.difficulty, s.elapsedMs)]
    ELSE s

\* handleWin without the call of stopTimer.
handleWin_ClockRuns(e, t) ==
    [e EXCEPT !.state = recordBest([e.state EXCEPT !.victory = TRUE])]

handleWin(e, t) ==
    LET stopped == stopTimer([e EXCEPT !.state.victory = TRUE], t)
    IN  [stopped EXCEPT !.state = recordBest(stopped.state)]

\* checkVictory comparing against one pair too few.
checkVictory_OnePairShort(e, t) ==
    IF Len(e.state.matched) + 2 = Len(e.state.deck) /\ ~e.state.victory
    THEN handleWin(e, t)
    ELSE e

checkVictory(e, t) ==
    IF Len(e.state.matched) = Len(e.state.deck) /\ ~e.state.victory
    THEN handleWin(e, t)
    ELSE e

\* state.deck[i]: undefined outside the deck.
HasSymbol(s, i) == i \in 1..Len(s.deck)

\* state.moves += 1, done twice.
countMove_Twice(e) == [e EXCEPT !.state.moves = e.state.moves + 2]

countMove(e) == [e EXCEPT !.state.moves = e.state.moves + 1]

\* The match branch leaving the two cards in the flip buffer.
resolveMatch_KeepsBuffer(e, first, second, t) ==
    checkVictory([e EXCEPT !.state.matched = e.state.matched \o <<first, second>>], t)

\* The match branch pushing only the first position.
resolveMatch_PushesOne(e, first, second, t) ==
    checkVictory([e EXCEPT !.state.matched = Append(e.state.matched, first),
                           !.state.flipped = <<>>], t)

\* The branch firstSymbol === secondSymbol of handleFlip.
resolveMatch(e, first, second, t) ==
    checkVictory([e EXCEPT !.state.matched = e.state.matched \o <<first, second>>,
                           !.state.flipped = <<>>], t)

\* handleFlip once the flip buffer holds two positions.
resolveTurn(e, t) ==
    LET counted == countMove(e)
        first   == e.state.flipped[1]
        second  == e.state.flipped[2]
    IN  IF ~HasSymbol(e.state, first) \/ ~HasSymbol(e.state, second)
        THEN [counted EXCEPT !.state.flipped = <<>>, !.state.locked = FALSE]
        ELSE IF e.state.deck[first] = e.state.deck[second]
        THEN resolveMatch(counted, first, second, t)
        ELSE queueMismatchReset(counted, <<first, second>>, t)

\* The early returns of handleFlip without the check of state.flipped.
flipRejected_IgnoresFlipped(s, index) ==
    \/ s.locked \/ s.victory
    \/ index \in Range(s.matched)

\* The early returns of handleFlip without the check of state.locked.
flipRejected_IgnoresLock(s, index) ==
    \/ s.victory
    \/ index \in Range(s.flipped) \/ index \in Range(s.matched)

\* The early returns of handleFlip without the check of state.matched.
flipRejected_IgnoresMatched(s, index) ==
    \/ s.locked \/ s.victory
    \/ index \in Range(s.flipped)

flipRejected(s, index) ==
    \/ s.locked \/ s.victory
    \/ index \in Range(s.flipped) \/ index \in Range(s.matched)

handleFlip(e, index, t) ==
    IF flipRejected(e.state, index) THEN e
    ELSE
        LET started == IF e.state.runningSince = null THEN startTimer(e, t) ELSE e
            pushed  == [started EXCEPT !.state.flipped = Append(started.state.flipped, index)]
        IN  IF Len(pushed.state.flipped) = 2 THEN resolveTurn(pushed, t) ELSE pushed

\* softReset without state.locked = false.
softReset_KeepsLock(e, level, deck, t) ==
    LET stopped == stopTimer(e, t)
    IN  [stopped EXCEPT !.state = [stopped.state EXCEPT
                                       !.difficulty = level,
                                       !.deck = deck,
                                       !.matched = <<>>,
                                       !.moves = 0,
                                       !.elapsedMs = 0,
                                       !.runningSince = null,
                                       !.flipped = <<>>,
                                       !.victory = FALSE]]

softReset(e, level, deck, t) ==
    LET stopped == stopTimer(e, t)
    IN  [stopped EXCEPT !.state = [stopped.state EXCEPT
                                       !.difficulty = level,
                                       !.deck = deck,
                                       !.matched = <<>>,
                                       !.moves = 0,
                                       !.elapsedMs = 0,
                                       !.runningSince = null,
                                       !.flipped = <<>>,
                                       !.locked = FALSE,
                                       !.victory = FALSE]]

-----------------------------------------------------------------------------
(* The state machine *)

Env == [state |-> state, timerHandle |-> timerHandle, timers |-> timers]

\* No card, no callback.
NoBoard == [cardRefs |-> <<>>, pending |-> <<>>, quiet |-> 0]

\* rebuildBoard makes a new button for every card of the deck; a new button
\* has no dataset.state and shows its face down, as an idle card does.  No
\* pending callback is cancelled.
rebuildBoard(b, deck) == [b EXCEPT !.cardRefs = [k \in 1..Len(deck) |-> "idle"]]

setCardVisualState(b, index, next) ==
    IF index \in 1..Len(b.cardRefs) THEN [b EXCEPT !.cardRefs[index] = next] ELSE b

Becomes(e) ==
    /\ state' = e.state
    /\ timerHandle' = e.timerHandle
    /\ timers' = e.timers

InputOpen == now <= MaxNow

\* Every deck buildDeck can return, per difficulty.
Decks == [d \in DifficultyKey |-> BuildDeckOutcomes(difficulties[d])]

Positions == 1..(2 * Scaled(12))

\* No call of secretSolvePuzzle is in progress.  solo is history: the call
\* began on a fresh deck and no other input has arrived since.
NoSolver == [pc |-> "idle", guard |-> 0, first |-> 0, second |-> 0, wake |-> 0,
             solo |-> FALSE]

NoBuild == [stage |-> "none", level |-> defaultDifficulty, rnd1 |-> <<>>,
            rnd2 |-> <<>>, deck |-> <<>>]

\* The page as loaded: createInitialState, no interval, no callback pending.
InitGame ==
    /\ \E deck \in Decks[defaultDifficulty] : state = createInitialState(deck)
    /\ timerHandle = FALSE
    /\ timers = <<>>
    /\ now = 0
    /\ turn = <<>>
    /\ solver = NoSolver
    /\ anchor = null
    /\ feedback = NoFeedback
    /\ board = rebuildBoard(NoBoard, state.deck)

Init == InitGame /\ build = NoBuild

\* A click on the card at position index (the listener of rebuildBoard).
CardClick(index) ==
    /\ InputOpen
    /\ index \in 1..Len(state.deck)
    /\ Len(timers) < MaxTimers
    /\ Becomes(handleFlip(Env, index, now))
    /\ UNCHANGED <<now, build>>

\* Reset marks the pending callbacks as belonging to a superseded session;
\* the mark is read by no operation of the program.
Superseded(ts) == [k \in 1..Len(ts) |-> [ts[k] EXCEPT !.stale = TRUE]]

DoSoftReset(level) ==
    \E deck \in Decks[level] :
        LET e == softReset(Env, level, deck, now)
        IN  Becomes([e EXCEPT !.timers = Superseded(e.timers)])

\* A click on the reset button.
ResetClick ==
    /\ InputOpen
    /\ DoSoftReset(state.difficulty)
    /\ UNCHANGED <<now, build>>

\* The difficulty listener resetting without asking.
DifficultyClick_NoConfirm(level, confirmed) ==
    /\ InputOpen
    /\ IF level # state.difficulty
       THEN DoSoftReset(level)
       ELSE UNCHANGED <<state, timerHandle, timers>>
    /\ UNCHANGED <<now, build>>

\* A click on a difficulty pill; confirmed is the answer of window.confirm.
DifficultyClick(level, confirmed) ==
    /\ InputOpen
    /\ IF level # state.difficulty /\ ~(hasActiveProgress(state) /\ ~confirmed)
       THEN DoSoftReset(level)
       ELSE UNCHANGED <<state, timerHandle, timers>>
    /\ UNCHANGED <<now, build>>

\* The pending callback with the earliest due time runs, once it is due.
MismatchTimeout ==
    /\ timers # <<>>
    /\ Head(timers).due <= now
    /\ Becomes(mismatchResetCallback([Env EXCEPT !.timers = Tail(timers)]))
    /\ UNCHANGED <<now, build>>

\* The interval installed by startTimer fires.
Tick ==
    /\ timerHandle
    /\ state.runningSince # null => now >= state.runningSince + TICK_INTERVAL
    /\ state' = tickTimer(state, now)
    /\ UNCHANGED <<timerHandle, timers, now, build>>

\* Time passes: freely while input is open, afterwards only as long as a
\* callback is still to come.
Advance ==
    /\ \/ now + TimeStep <= MaxNow
       \/ \E k \in 1..Len(timers) : timers[k].due > now
    /\ now' = now + TimeStep
    /\ UNCHANGED <<state, timerHandle, timers, build>>

Next ==
    \/ \E index \in Positions : CardClick(index) /\ UNCHANGED <<turn, solver, anchor, feedback, board>>
    \/ ResetClick /\ UNCHANGED <<turn, solver, anchor, feedback, board>>
    \/ \E level \in DifficultyKey, confirmed \in BOOLEAN :
           DifficultyClick(level, confirmed) /\ UNCHANGED <<turn, solver, anchor, feedback, board>>
    \/ MismatchTimeout /\ UNCHANGED <<turn, solver, anchor, feedback, board>>
    \/ Tick /\ UNCHANGED <<turn, solver, anchor, feedback, board>>
    \/ Advance /\ UNCHANGED <<turn, solver, anchor, feedback, board>>

Spec == Init /\ [][Next]_vars

\* The same program with the browser's guarantees about timers: time passes
\* while a callback is still to come, and a callback that is due runs.
FairTimers ==
    /\ Init /\ [][Next]_vars
    /\ WF_vars(MismatchTimeout /\ UNCHANGED <<turn, solver, anchor, feedback, board>>)
    /\ WF_vars(Advance /\ UNCHANGED <<turn, solver, anchor, feedback, board>>)

-----------------------------------------------------------------------------
(* The same program with the history variable turn kept: the pair of the   *)
(* current session's latest mismatch, until that mismatch's own callback   *)
(* runs or the session is reset.                                           *)

NextTurn ==
    \/ \E index \in Positions :
           /\ CardClick(index)
           /\ turn' = IF Len(timers') > Len(timers) THEN state'.flipped ELSE turn
           /\ UNCHANGED <<solver, anchor, feedback, board>>
    \/ ResetClick /\ turn' = <<>> /\ UNCHANGED <<solver, anchor, feedback, board>>
    \/ \E level \in DifficultyKey, confirmed \in BOOLEAN :
           /\ DifficultyClick(level, confirmed)
           /\ turn' = IF level # state.difficulty
                          /\ ~(hasActiveProgress(state) /\ ~confirmed)
                       THEN <<>> ELSE turn
           /\ UNCHANGED <<solver, anchor, feedback, board>>
    \/ /\ MismatchTimeout
       /\ turn' = IF Head(timers).stale THEN turn ELSE <<>>
       /\ UNCHANGED <<solver, anchor, feedback, board>>
    \/ Tick /\ UNCHANGED <<turn, solver, anchor, feedback, board>>
    \/ Advance /\ UNCHANGED <<turn, solver, anchor, feedback, board>>

SpecTurn == Init /\ [][NextTurn]_vars

-----------------------------------------------------------------------------
(* The same program with the history variable anchor kept: Date.now() at   *)
(* the first reveal accepted since the session was created, null before.   *)

AnchorAfterClick ==
    IF anchor = null
       /\ (Len(state'.flipped) > Len(state.flipped) \/ state'.moves > state.moves)
    THEN now ELSE anchor

NextClock ==
    \/ \E index \in Positions :
           /\ CardClick(index)
           /\ anchor' = AnchorAfterClick
           /\ UNCHANGED <<turn, solver, feedback, board>>
    \/ ResetClick /\ anchor' = null /\ UNCHANGED <<turn, solver, feedback, board>>
    \/ \E level \in DifficultyKey, confirmed \in BOOLEAN :
           /\ DifficultyClick(level, confirmed)
           /\ anchor' = IF level # state.difficulty
                            /\ ~(hasActiveProgress(state) /\ ~confirmed)
                         THEN null ELSE anchor
           /\ UNCHANGED <<turn, solver, feedback, board>>
    \/ MismatchTimeout /\ UNCHANGED <<turn, solver, anchor, feedback, board>>
    \/ Tick /\ UNCHANGED <<turn, solver, anchor, feedback, board>>
    \/ Advance /\ UNCHANGED <<turn, solver, anchor, feedback, board>>

SpecClock == Init /\ [][NextClock]_vars

-----------------------------------------------------------------------------
(* game.ts: the auto-solver, window.secretSolvePuzzle.  A call runs from    *)
(* one await to the next as one step; solver.pc names the await it is at.   *)

MinOf(S) == CHOOSE x \in S : \A y \in S : x <= y

GuardLimit == Min(SOLVER_GUARD, MaxGuard)

\* One call of the forEach callback of pickNextPair: position n, showing
\* symbol, is skipped if matched, else pushed to the group of its symbol,
\* a new group if the symbol is met for the first time.
AddToBuckets(buckets, symbol, n, isMatched) ==
    IF isMatched THEN buckets
    ELSE IF \A k \in 1..Len(buckets) : buckets[k].symbol # symbol
    THEN Append(buckets, [symbol |-> symbol, group |-> <<n>>])
    ELSE [k \in 1..Len(buckets) |->
             IF buckets[k].symbol = symbol
             THEN [buckets[k] EXCEPT !.group = Append(buckets[k].group, n)]
             ELSE buckets[k]]

\* The buckets of pickNextPair once its forEach has visited the first n
\* positions: the groups in the order their symbols were first met.  (The
\* buckets so far are bound once, as the one element of a set.)
RECURSIVE BucketsUpTo(_, _)
BucketsUpTo(s, n) ==
    IF n = 0 THEN <<>>
    ELSE CHOOSE after \in
             {AddToBuckets(buckets, s.deck[n], n, n \in Range(s.matched)) :
                  buckets \in {BucketsUpTo(s, n - 1)}} : TRUE

\* The for-of loop returning the last group of two or more.
FirstGroupOfTwo_TakesLast(buckets) ==
    LET hits == {k \in 1..Len(buckets) : Len(buckets[k].group) >= 2}
    IN  IF hits = {} THEN <<>>
        ELSE LET group == buckets[CHOOSE k \in hits : \A h \in hits : h <= k].group
             IN  <<group[1], group[2]>>

\* The for-of loop over buckets.values(); <<>> stands for null.
FirstGroupOfTwo(buckets) ==
    LET hits == {k \in 1..Len(buckets) : Len(buckets[k].group) >= 2}
    IN  IF hits = {} THEN <<>>
        ELSE LET group == buckets[MinOf(hits)].group
             IN  <<group[1], group[2]>>

Unmatched(s) == {i \in 1..Len(s.deck) : i \notin Range(s.matched)}

\* pickNextPair taking the first two unmatched positions, whatever they show.
pickNextPair_AnyTwo(s) ==
    IF Cardinality(Unmatched(s)) < 2 THEN <<>>
    ELSE LET first == MinOf(Unmatched(s))
         IN  <<first, MinOf(Unmatched(s) \ {first})>>

pickNextPair(s) == FirstGroupOfTwo(BucketsUpTo(s, Len(s.deck)))

\* The solver marking the card matched by itself.
solverClick_WritesMatched(e, index, t) ==
    [e EXCEPT !.state.matched = Append(e.state.matched, index)]

\* card.click(): the listener the card was given by rebuildBoard.
solverClick(e, index, t) == handleFlip(e, index, t)

SolverDone(sv) == [NoSolver EXCEPT !.pc = "done", !.solo = sv.solo]

\* The loop taking a missing pair for a finished game.
solverLoop_ExhaustionWins(e, sv, t) ==
    IF e.state.victory \/ sv.guard >= GuardLimit
    THEN [e |-> e, sv |-> SolverDone(sv)]
    ELSE IF e.state.locked
    THEN [e |-> e,
          sv |-> [sv EXCEPT !.pc = "lockWait", !.wake = t + FLIP_DURATION]]
    ELSE LET pair == pickNextPair(e.state)
         IN  IF pair = <<>>
             THEN [e |-> [e EXCEPT !.state.victory = TRUE], sv |-> SolverDone(sv)]
             ELSE [e |-> solverClick(e, pair[1], t),
                   sv |-> [sv EXCEPT !.pc = "afterFirst",
                                     !.first = pair[1], !.second = pair[2],
                                     !.wake = t + FLIP_DURATION + 120]]

\* The while loop of secretSolvePuzzle from its head to the next await.
solverLoop(e, sv, t) ==
    IF e.state.victory \/ sv.guard >= GuardLimit
    THEN [e |-> e, sv |-> SolverDone(sv)]
    ELSE IF e.state.locked
    THEN [e |-> e,
          sv |-> [sv EXCEPT !.pc = "lockWait", !.wake = t + FLIP_DURATION]]
    ELSE LET pair == pickNextPair(e.state)
         IN  IF pair = <<>>
             THEN [e |-> e, sv |-> SolverDone(sv)]
             ELSE [e |-> solverClick(e, pair[1], t),
                   sv |-> [sv EXCEPT !.pc = "afterFirst",
                                     !.first = pair[1], !.second = pair[2],
                                     !.wake = t + FLIP_DURATION + 120]]

\* The continuation of the call after the sleep it is waiting on.
solverResume(e, sv, t) ==
    IF sv.pc = "lockWait" THEN solverLoop(e, sv, t)
    ELSE IF sv.pc = "afterFirst"
    THEN [e |-> solverClick(e, sv.second, t),
          sv |-> [sv EXCEPT !.pc = "afterSecond", !.wake = t + WAIT_AFTER_MATCH]]
    ELSE solverLoop(e, [sv EXCEPT !.guard = sv.guard + 1], t)

Sleeping(sv) == sv.pc \in {"lockWait", "afterFirst", "afterSecond"}

\* The session as createInitialState and softReset leave it.
FreshDeck(s) ==
    /\ s.flipped = <<>> /\ s.matched = <<>> /\ ~s.locked /\ ~s.victory
    /\ s.moves = 0 /\ s.runningSince = null

\* A call of window.secretSolvePuzzle(); one call is followed to its end.
SolverStart ==
    /\ InputOpen
    /\ solver.pc = "idle"
    /\ \E r \in {solverLoop(Env, [NoSolver EXCEPT !.solo = FreshDeck(state)], now)} :
           Becomes(r.e) /\ solver' = r.sv
    /\ UNCHANGED <<now, build>>

\* The sleep of the running call is over and no click it makes could queue
\* a callback beyond MaxTimers.
SolverDue ==
    /\ Sleeping(solver)
    /\ solver.wake <= now
    /\ (Len(timers) < MaxTimers \/ state.locked \/ state.victory)

SolverWake ==
    /\ SolverDue
    /\ \E r \in {solverResume(Env, solver, now)} :
           Becomes(r.e) /\ solver' = r.sv
    /\ UNCHANGED <<now, build>>

\* Manual input while a solver call may be running.
CardClickBesideSolver(index) ==
    /\ CardClick(index)
    /\ solver' = [solver EXCEPT !.solo = FALSE]

\* The player starts no new session from a finished one.
ResetClickBesideSolver ==
    /\ ~state.victory
    /\ ResetClick
    /\ solver' = [solver EXCEPT !.solo = FALSE]

DifficultyClickBesideSolver(level, confirmed) ==
    /\ ~state.victory
    /\ level # state.difficulty
    /\ ~(hasActiveProgress(state) /\ ~confirmed)
    /\ DifficultyClick(level, confirmed)
    /\ solver' = [solver EXCEPT !.solo = FALSE]

CallbackDue == (timers # <<>> /\ Head(timers).due <= now) \/ SolverDue

PendingTimes == {timers[k].due : k \in 1..Len(timers)}
                \cup (IF Sleeping(solver) THEN {solver.wake} ELSE {})

\* Time passes up to the next pending callback; a callback that is due runs
\* before time passes.
Elapse ==
    /\ ~CallbackDue
    /\ \E p \in PendingTimes : p > now
    /\ now' = MinOf({p \in PendingTimes : p > now})
    /\ UNCHANGED <<state, timerHandle, timers, build, solver>>

\* The board the solver is tried on is chosen among the default and the
\* largest one.
NextSolver ==
    \/ SolverStart /\ UNCHANGED <<turn, anchor, feedback, board>>
    \/ SolverWake /\ UNCHANGED <<turn, anchor, feedback, board>>
    \/ \E index \in Positions : CardClickBesideSolver(index) /\ UNCHANGED <<turn, anchor, feedback, board>>
    \/ ResetClickBesideSolver /\ UNCHANGED <<turn, anchor, feedback, board>>
    \/ \E confirmed \in BOOLEAN :
           DifficultyClickBesideSolver("inferno", confirmed) /\ UNCHANGED <<turn, anchor, feedback, board>>
    \/ MismatchTimeout /\ UNCHANGED <<turn, solver, anchor, feedback, board>>
    \/ Tick /\ UNCHANGED <<turn, solver, anchor, feedback, board>>
    \/ Elapse /\ UNCHANGED <<turn, anchor, feedback, board>>

SpecSolver == Init /\ [][NextSolver]_vars

-----------------------------------------------------------------------------
(* The solver against a player who picks the board before the call, then  *)
(* resets only at instants at which the call is about to resume and no     *)
(* callback is pending, and reveals cards only right after such a reset;   *)
(* of the decks such a reset can deal, the runs followed are those in      *)
(* which the shuffle returns the cards in the order they lay in.  The      *)
(* fairness is that of the browser's event loop: a callback that is due    *)
(* runs, and time passes.                                                  *)
(* Date.now() is counted from the latest softReset: the program reads it   *)
(* only as a difference to runningSince, which softReset clears, and the   *)
(* pending callbacks keep their remaining delays.                          *)

SinceReset(ts, t) == [k \in 1..Len(ts) |-> [ts[k] EXCEPT !.due = ts[k].due - t]]

DoSoftResetAtEpoch(level, decks) ==
    /\ \E deck \in decks :
           LET e == softReset(Env, level, deck, now)
           IN  Becomes([e EXCEPT !.timers = SinceReset(Superseded(e.timers), now)])
    /\ solver' = [solver EXCEPT !.wake = IF Sleeping(solver) THEN solver.wake - now
                                         ELSE solver.wake,
                                !.solo = FALSE]
    /\ now' = 0
    /\ UNCHANGED build

PlayerMoves == Sleeping(solver) /\ solver.wake = now

NextFair ==
    \/ SolverStart /\ UNCHANGED <<turn, anchor, feedback, board>>
    \/ SolverWake /\ UNCHANGED <<turn, anchor, feedback, board>>
    \/ \E index \in Positions :
           /\ PlayerMoves /\ now = 0
           /\ CardClickBesideSolver(index)
           /\ UNCHANGED <<turn, anchor, feedback, board>>
    \/ /\ PlayerMoves /\ timers = <<>> /\ ~state.victory
       /\ DoSoftResetAtEpoch(state.difficulty, {state.deck})
       /\ UNCHANGED <<turn, anchor, feedback, board>>
    \/ /\ solver.pc = "idle" /\ ~hasActiveProgress(state)
       /\ state.difficulty # "inferno"
       /\ DoSoftResetAtEpoch("inferno", Decks["inferno"])
       /\ UNCHANGED <<turn, anchor, feedback, board>>
    \/ MismatchTimeout /\ UNCHANGED <<turn, solver, anchor, feedback, board>>
    \/ Elapse /\ UNCHANGED <<turn, anchor, feedback, board>>

FairSolver ==
    /\ Init /\ [][NextFair]_vars
    /\ WF_vars(SolverWake /\ UNCHANGED <<turn, anchor, feedback, board>>)
    /\ WF_vars(MismatchTimeout /\ UNCHANGED <<turn, solver, anchor, feedback, board>>)
    /\ WF_vars(Elapse /\ UNCHANGED <<turn, anchor, feedback, board>>)

-----------------------------------------------------------------------------
(* buildDeck on its own: the difficulty and both shuffles' random draws    *)
(* are the input, the deck is the result.                                  *)

InitDeck ==
    /\ InitGame
    /\ \E level \in DifficultyKey :
       \E rnd1 \in RandomChoices(Len(difficulties[level].pool)) :
       \E rnd2 \in RandomChoices(2 * Min(difficulties[level].pairs,
                                          Len(difficulties[level].pool))) :
           build = [stage |-> "input", level |-> level, rnd1 |-> rnd1,
                    rnd2 |-> rnd2, deck |-> <<>>]

BuildDeck ==
    /\ build.stage = "input"
    /\ build' = [build EXCEPT
                    !.stage = "done",
                    !.deck = buildDeck(difficulties[build.level], build.rnd1, build.rnd2)]
    /\ UNCHANGED <<state, timerHandle, timers, now, turn, solver, anchor, feedback, board>>

NextDeck == BuildDeck

SpecDeck == InitDeck /\ [][NextDeck]_vars

-----------------------------------------------------------------------------
(* The game with the feedback of mismatches kept: both timers of           *)
(* queueMismatchReset and the timer of flashFeedback run, in the order of  *)
(* their due times as the browser runs them, and time passes from one due  *)
(* time to the next.  The 'good' feedback of a match is not kept.  The     *)
(* player moves to the largest board before playing and does not reset a   *)
(* finished game.                                                          *)

FeedbackDue(k) ==
    /\ feedback.pending[k].due <= now
    /\ \A j \in 1..Len(feedback.pending) :
           feedback.pending[j].due >= feedback.pending[k].due
    /\ timers # <<>> => Head(timers).due >= feedback.pending[k].due

FeedbackTimeout(k) ==
    /\ FeedbackDue(k)
    /\ \E r \in {feedbackCallback(Env, feedback, k, now)} :
           Becomes(r.e) /\ feedback' = r.fb
    /\ UNCHANGED <<now, build>>

\* The reset callback, once no feedback timer is due before it.
MismatchTimeoutInOrder ==
    /\ MismatchTimeout
    /\ \A k \in 1..Len(feedback.pending) : feedback.pending[k].due >= Head(timers).due
    /\ feedback' = resetFeedback(feedback)

FeedbackTimes ==
    {timers[k].due : k \in 1..Len(timers)}
        \cup {feedback.pending[k].due : k \in 1..Len(feedback.pending)}

ElapseFeedback ==
    /\ \A p \in FeedbackTimes : p > now
    /\ FeedbackTimes # {}
    /\ now' = MinOf(FeedbackTimes)
    /\ UNCHANGED <<state, timerHandle, timers, build, feedback, board>>

NextFeedback ==
    \/ \E index \in Positions :
           /\ CardClick(index)
           /\ feedback' = IF Len(timers') > Len(timers)
                           THEN queueFeedback(feedback, Range(state'.flipped), now)
                           ELSE feedback
           /\ UNCHANGED <<turn, solver, anchor, board>>
    \/ /\ ~state.victory
       /\ ResetClick
       /\ feedback' = rebuildFeedback(feedback)
       /\ UNCHANGED <<turn, solver, anchor, board>>
    \/ /\ state.difficulty # "inferno" /\ ~hasActiveProgress(state)
       /\ DifficultyClick("inferno", FALSE)
       /\ feedback' = rebuildFeedback(feedback)
       /\ UNCHANGED <<turn, solver, anchor, board>>
    \/ MismatchTimeoutInOrder /\ UNCHANGED <<turn, solver, anchor, board>>
    \/ \E k \in 1..MaxTimers :
           /\ k <= Len(feedback.pending)
           /\ FeedbackTimeout(k)
           /\ UNCHANGED <<turn, solver, anchor, board>>
    \/ ElapseFeedback /\ UNCHANGED <<turn, solver, anchor, board>>

SpecFeedback == Init /\ [][NextFeedback]_vars

-----------------------------------------------------------------------------
(* The solver beside a player who changes the difficulty, to a smaller     *)
(* board too, while a call is asleep: the card the solver clicks after its *)
(* sleep is the one it picked before, at a position the new deck may not   *)
(* have.                                                                   *)

NextSwitch ==
    \/ SolverStart /\ UNCHANGED <<turn, anchor, feedback, board>>
    \/ SolverWake /\ UNCHANGED <<turn, anchor, feedback, board>>
    \/ \E index \in Positions : CardClickBesideSolver(index) /\ UNCHANGED <<turn, anchor, feedback, board>>
    \/ \E level \in DifficultyKey :
           DifficultyClickBesideSolver(level, TRUE) /\ UNCHANGED <<turn, anchor, feedback, board>>
    \/ MismatchTimeout /\ UNCHANGED <<turn, solver, anchor, feedback, board>>
    \/ Elapse /\ UNCHANGED <<turn, anchor, feedback, board>>

SpecSwitch == Init /\ [][NextSwitch]_vars

-----------------------------------------------------------------------------
(* The game with a registry entry other than those of the source: the      *)
(* entry of the largest difficulty holds any pair count up to MaxPairs and *)
(* a pool of up to MaxPool symbols.  The player chooses that difficulty,   *)
(* softReset builds its deck, and the solver is called on it.              *)

Configs ==
    {[key |-> "inferno", pairs |-> pairs,
      pool |-> SubSeq(difficulties["inferno"].pool, 1, size)] :
         pairs \in 0..MaxPairs, size \in 0..MaxPool}

InitConfig ==
    /\ InitGame
    /\ \E config \in Configs :
       \E rnd1 \in RandomChoices(Len(config.pool)) :
       \E rnd2 \in RandomChoices(2 * Min(config.pairs, Len(config.pool))) :
           build = [stage |-> "input", config |-> config, rnd1 |-> rnd1,
                    rnd2 |-> rnd2, deck |-> <<>>]

\* The difficulty listener calling softReset for the entry drawn.
ChooseConfigured ==
    /\ build.stage = "input"
    /\ LET deck == buildDeck(build.config, build.rnd1, build.rnd2)
       IN  /\ Becomes(softReset(Env, build.config.key, deck, now))
           /\ build' = [build EXCEPT !.stage = "done", !.deck = deck]
    /\ UNCHANGED <<now, solver>>

NextConfig ==
    \/ ChooseConfigured /\ UNCHANGED <<turn, anchor, feedback, board>>
    \/ build.stage = "done" /\ SolverStart /\ UNCHANGED <<turn, anchor, feedback, board>>
    \/ SolverWake /\ UNCHANGED <<turn, anchor, feedback, board>>
    \/ Elapse /\ UNCHANGED <<turn, anchor, feedback, board>>

SpecConfig == InitConfig /\ [][NextConfig]_vars

-----------------------------------------------------------------------------
(* shuffle on its own: the array and the random draws are the input; the   *)
(* array afterwards and the array returned are the result.  The arrays     *)
(* hold symbols of the largest pool, repeated or not.                      *)

Symbols == Range(difficulties["inferno"].pool)

Arrays == UNION {[1..n -> Symbols] : n \in 0..MaxLen}

InitShuffle ==
    /\ InitGame
    /\ \E input \in Arrays : \E rnd \in RandomChoices(Len(input)) :
           build = [stage |-> "input", input |-> input, rnd |-> rnd,
                    arr |-> input, result |-> <<>>]

ShuffleCall ==
    /\ build.stage = "input"
    /\ LET call == shuffleCall(build.arr, build.rnd)
       IN  build' = [build EXCEPT !.stage = "done",
                                  !.arr = call.input,
                                  !.result = call.result]
    /\ UNCHANGED <<state, timerHandle, timers, now, turn, solver, anchor, feedback, board>>

NextShuffle == ShuffleCall

SpecShuffle == InitShuffle /\ [][NextShuffle]_vars

-----------------------------------------------------------------------------
(* The visual state of the cards.  board.cardRefs holds dataset.state of   *)
(* every card of the current board, board.pending the callbacks that will  *)
(* call setCardVisualState, and board.quiet the time by which every        *)
(* callback of flashFeedback has run as well (0 once that time is reached).  The callback of             *)
(* queueMismatchReset is one callback: its entry in board.pending runs     *)
(* together with its entry in timers.                                      *)

\* handleFlip for the cards: an accepted reveal shows the card; a match or
\* a mismatch schedules what the pair will show next.
flipBoard(b, before, after, index, t) ==
    IF flipRejected(before.state, index) THEN b
    ELSE LET shown == setCardVisualState(b, index, "flipped")
             m     == after.state.matched
         IN  IF Len(m) > Len(before.state.matched)
             THEN [shown EXCEPT
                      !.pending = Append(@, [due |-> t + MATCH_VISUAL_DELAY,
                                             next |-> "matched",
                                             indices |-> <<m[Len(m) - 1], m[Len(m)]>>]),
                      !.quiet = Max(@, t + FLIP_DURATION + GOOD_FLASH_DURATION)]
             ELSE IF Len(after.timers) > Len(before.timers)
             THEN [shown EXCEPT
                      !.pending = Append(@, [due |-> t + MISMATCH_RESET_DELAY,
                                             next |-> "idle",
                                             indices |-> after.state.flipped]),
                      !.quiet = Max(@, t + FLIP_DURATION + BAD_FLASH_DURATION)]
             ELSE shown

\* The callback at place k of board.pending runs.
visualCallback(b, k) ==
    LET entry == b.pending[k]
        first == setCardVisualState(b, entry.indices[1], entry.next)
        both  == setCardVisualState(first, entry.indices[2], entry.next)
    IN  [both EXCEPT !.pending = Without(b.pending, k)]

\* The player acts until the first callback can have run; afterwards the
\* callbacks run out.
VisualInputOpen == now <= MATCH_VISUAL_DELAY

VisualCardClick(index) ==
    /\ VisualInputOpen
    /\ index \in 1..Len(state.deck)
    /\ Len(board.pending) < MaxTimers
    /\ \E after \in {handleFlip(Env, index, now)} :
           /\ Becomes(after)
           /\ board' = flipBoard(board, Env, after, index, now)
    /\ UNCHANGED <<now, build>>

VisualResetClick ==
    /\ ResetClick
    /\ board' = rebuildBoard(board, state'.deck)

VisualDifficultyClick(level, confirmed) ==
    /\ DifficultyClick(level, confirmed)
    /\ board' = IF state'.difficulty # state.difficulty
                THEN rebuildBoard(board, state'.deck)
                ELSE board

VisualTimes ==
    {timers[k].due : k \in 1..Len(timers)}
        \cup {board.pending[k].due : k \in 1..Len(board.pending)}
        \cup {board.quiet}

\* Callbacks run in the order of their due times.
VisualDue(k) ==
    /\ board.pending[k].due <= now
    /\ \A j \in 1..Len(board.pending) : board.pending[j].due >= board.pending[k].due

\* The callback that marks a matched pair, 250 ms after the match.
MatchedTimeout(k) ==
    /\ board.pending[k].next = "matched"
    /\ VisualDue(k)
    /\ board' = visualCallback(board, k)
    /\ UNCHANGED <<state, timerHandle, timers, now, build>>

\* The reset callback of a mismatch: cards idle, flip buffer emptied, unlocked.
VisualMismatchTimeout ==
    /\ MismatchTimeout
    /\ \E k \in 1..Len(board.pending) :
           /\ board.pending[k].next = "idle"
           /\ \A j \in 1..(k - 1) : board.pending[j].next # "idle"
           /\ VisualDue(k)
           /\ board' = visualCallback(board, k)

ElapseVisual ==
    /\ \E p \in VisualTimes : p > now
    /\ \A k \in 1..Len(board.pending) : board.pending[k].due > now
    /\ now' = MinOf({p \in VisualTimes : p > now})
    /\ board' = IF now' >= board.quiet THEN [board EXCEPT !.quiet = 0] ELSE board
    /\ UNCHANGED <<state, timerHandle, timers, build>>

NextVisual ==
    \/ \E index \in Positions :
           VisualCardClick(index) /\ UNCHANGED <<turn, solver, anchor, feedback>>
    \/ /\ ~state.victory /\ VisualInputOpen
       /\ VisualResetClick
       /\ UNCHANGED <<turn, solver, anchor, feedback>>
    \/ /\ state.difficulty # "inferno" /\ ~hasActiveProgress(state) /\ VisualInputOpen
       /\ VisualDifficultyClick("inferno", FALSE)
       /\ UNCHANGED <<turn, solver, anchor, feedback>>
    \/ \E k \in 1..MaxTimers :
           /\ k <= Len(board.pending)
           /\ MatchedTimeout(k)
           /\ UNCHANGED <<turn, solver, anchor, feedback>>
    \/ VisualMismatchTimeout /\ UNCHANGED <<turn, solver, anchor, feedback>>
    \/ ElapseVisual /\ UNCHANGED <<turn, solver, anchor, feedback>>

SpecVisual == Init /\ [][NextVisual]_vars

-----------------------------------------------------------------------------
(* toEmojiNumber and formatEmojiTime on their own.  A string is the         *)
(* sequence of its characters; a keycap emoji, which the source writes as   *)
(* one string of three code units, is one element, and so is the sign       *)
(* between the two fields of a time.                                        *)

digitEmoji == <<"keycap0", "keycap1", "keycap2", "keycap3", "keycap4",
                "keycap5", "keycap6", "keycap7", "keycap8", "keycap9">>

\* The sign formatEmojiTime puts between minutes and seconds.
HeavyEquals == "heavyEquals"

\* The characters of Number.prototype.toString for a non-negative integer.
DigitChars == <<"0", "1", "2", "3", "4", "5", "6", "7", "8", "9">>

RECURSIVE toString(_)
toString(n) ==
    IF n < 10 THEN <<DigitChars[n + 1]>>
    ELSE Append(toString(n \div 10), DigitChars[(n % 10) + 1])

padStart(str, targetLength, pad) ==
    IF Len(str) >= targetLength THEN str
    ELSE [k \in 1..(targetLength - Len(str)) |-> pad] \o str

\* Number(char) for a character of a decimal string.
Number(char) == CHOOSE d \in 0..9 : DigitChars[d + 1] = char

\* Math.floor leaves an integer as it is.
toEmojiNumber(value, minDigits) ==
    LET safe == Max(0, value)
        raw  == padStart(toString(safe), minDigits, "0")
    IN  [k \in 1..Len(raw) |-> digitEmoji[Number(raw[k]) + 1]]

\* formatEmojiTime rendering the whole seconds in the seconds field.
formatEmojiTime_WholeSeconds(milliseconds) ==
    LET totalSeconds == Max(0, milliseconds \div 1000)
        minutes      == totalSeconds \div 60
        seconds      == totalSeconds
    IN  toEmojiNumber(minutes, 2) \o <<HeavyEquals>> \o toEmojiNumber(seconds, 2)

\* \div rounds towards minus infinity, as Math.floor of the quotient does.
formatEmojiTime(milliseconds) ==
    LET totalSeconds == Max(0, milliseconds \div 1000)
        minutes      == totalSeconds \div 60
        seconds      == totalSeconds % 60
    IN  toEmojiNumber(minutes, 2) \o <<HeavyEquals>> \o toEmojiNumber(seconds, 2)

\* Times up to MaxMinutes minutes, at the edges of a second and of a minute,
\* and their negatives.
Milliseconds ==
    {sign * ((m * 60 + s) * 1000 + f) :
        sign \in {-1, 1}, m \in 0..MaxMinutes, s \in {0, 9, 10, 59}, f \in {0, 1, 999}}

InitFormat ==
    /\ InitGame
    /\ \/ \E ms \in Milliseconds :
              build = [stage |-> "input", fn |-> "formatEmojiTime", value |-> ms,
                       minDigits |-> 2, result |-> <<>>]
       \/ \E value \in (-MaxValue)..MaxValue, minDigits \in 0..MaxDigits :
              build = [stage |-> "input", fn |-> "toEmojiNumber", value |-> value,
                       minDigits |-> minDigits, result |-> <<>>]

FormatEmojiTimeCall ==
    /\ build.stage = "input" /\ build.fn = "formatEmojiTime"
    /\ build' = [build EXCEPT !.stage = "done",
                              !.result = formatEmojiTime(build.value)]
    /\ UNCHANGED <<state, timerHandle, timers, now, turn, solver, anchor, feedback, board>>

ToEmojiNumberCall ==
    /\ build.stage = "input" /\ build.fn = "toEmojiNumber"
    /\ build' = [build EXCEPT !.stage = "done",
                              !.result = toEmojiNumber(build.value, build.minDigits)]
    /\ UNCHANGED <<state, timerHandle, timers, now, turn, solver, anchor, feedback, board>>

NextFormat == FormatEmojiTimeCall \/ ToEmojiNumberCall

SpecFormat == InitFormat /\ [][NextFormat]_vars

-----------------------------------------------------------------------------
(* Properties *)

\* The conditions under which the specification says a reveal of position i
\* is rejected: locked, victory, i in the flip buffer, i matched.
RevealRefused(s, i) ==
    s.locked \/ s.victory \/ i \in Range(s.flipped) \/ i \in Range(s.matched)

\* A step on which a pending mismatch-reset callback runs.
CallbackRuns == Len(timers') < Len(timers)

\* A step on which a mismatch is resolved: its callback is queued.
MismatchStep == Len(timers') > Len(timers)

\* A step on which a reveal is accepted.
RevealAccepted ==
    Len(state'.flipped) > Len(state.flipped) \/ state'.moves > state.moves

\* A step of softReset (reset button or confirmed difficulty change).
ResetStep == ResetClick \/ \E level \in DifficultyKey : DifficultyClick(level, TRUE)

Count(deck, symbol) == Cardinality({k \in 1..Len(deck) : deck[k] = symbol})

\* C1: in every reachable state, victory is true exactly when the number of
\* matched positions equals the length of the deck.
C1_VictoryIffAllMatched ==
    state.victory <=> (Len(state.matched) = Len(state.deck))

\* A four-card game won in three moves: one mismatch, its reset, two matches.
C1_Witness ==
    state.victory /\ Len(state.deck) = 4 /\ state.moves = 3

\* C2: a mismatch-reset callback queued before a reset changes neither the
\* flip buffer nor the lock of the session that followed the reset.
C2_StaleCallbackHasNoEffect ==
    [][(CallbackRuns /\ Head(timers).stale)
          => (state'.flipped = state.flipped /\ state'.locked = state.locked)]_vars

\* C3: no reveal is accepted while the mismatch-reset interval
\* (FLIP_DURATION + 900 ms) of a mismatch of the current session is running.
C3_NoRevealInsideMismatchWindow ==
    [][RevealAccepted
          => \A k \in 1..Len(timers) : ~timers[k].stale => timers[k].due <= now]_vars

\* C4: a reveal of any position while locked or after victory, or of a
\* position in the flip buffer or already matched, changes no field of the
\* state, installs no interval and queues no callback.
C4_RefusedRevealIsNoOp ==
    \A i \in 1..Len(state.deck) :
        RevealRefused(state, i) => handleFlip(Env, i, now) = Env

\* The board is locked and a click can arrive on a third, hidden card.
C4_Witness ==
    /\ state.locked /\ InputOpen /\ Len(timers) < MaxTimers
    /\ \E i \in 1..Len(state.deck) :
           i \notin Range(state.flipped) /\ i \notin Range(state.matched)

\* C5: moves grows by exactly one on each accepted second reveal of a turn,
\* match or mismatch; it is unchanged by first reveals, refused reveals, the
\* mismatch-reset callback and clock ticks; it decreases only to 0, by a reset.
C5_MovesCountsTurns ==
    [][/\ \A i \in Positions :
              CardClick(i) =>
                  state'.moves = IF ~RevealRefused(state, i) /\ Len(state.flipped) = 1
                                 THEN state.moves + 1
                                 ELSE state.moves
       /\ MismatchTimeout => state'.moves = state.moves
       /\ Tick => state'.moves = state.moves
       /\ state'.moves < state.moves => (state'.moves = 0 /\ ResetStep)]_vars

\* Two turns completed, a mismatch and then a match, in a four-card game.
C5_Witness ==
    state.moves = 2 /\ Len(state.matched) = 2 /\ ~state.victory

\* C6: when the second reveal of a turn matches the first, in that same step
\* both positions are appended to matched, the flip buffer is empty, locked is
\* false and no callback is queued; a reveal of any unmatched position is then
\* accepted at once.
C6_MatchResolvesAtOnce ==
    \A i \in 1..Len(state.deck) :
        (/\ ~RevealRefused(state, i)
         /\ Len(state.flipped) = 1
         /\ state.deck[state.flipped[1]] = state.deck[i])
        => LET e == handleFlip(Env, i, now)
           IN  /\ e.state.matched = state.matched \o <<state.flipped[1], i>>
               /\ e.state.flipped = <<>>
               /\ ~e.state.locked
               /\ e.timers = timers
               /\ \A j \in 1..Len(state.deck) :
                      j \notin Range(e.state.matched)
                      => handleFlip(e, j, now).state.flipped = <<j>>

\* One pair matched on the first turn, the other pair still hidden.
C6_Witness ==
    /\ Len(state.matched) = 2 /\ state.moves = 1 /\ state.flipped = <<>>
    /\ ~state.locked /\ ~state.victory

\* C7: a mismatch sets locked in the step that detects it and leaves matched
\* unchanged; when its own callback runs with no reset in between, the flip
\* buffer is empty, locked is false, and both positions of the mismatched
\* pair are hidden and can be revealed again.
C7_MismatchLocksThenRestores ==
    [][/\ MismatchStep => (state'.locked /\ state'.matched = state.matched)
       /\ (CallbackRuns /\ ~Head(timers).stale)
              => /\ state'.flipped = <<>>
                 /\ ~state'.locked
                 /\ \A i \in Range(turn) : ~RevealRefused(state', i)]_vars

\* C8: for every difficulty and every outcome of the two shuffles, buildDeck
\* returns a deck of length 2 * pairs in which every symbol occurs exactly
\* twice.
C8_DeckHoldsEachSymbolTwice ==
    build.stage = "done"
    => /\ Len(build.deck) = 2 * difficulties[build.level].pairs
       /\ \A symbol \in Range(build.deck) : Count(build.deck, symbol) = 2

\* A deck of two pairs built with the two copies of a symbol apart.
C8_Witness ==
    /\ build.stage = "done" /\ Len(build.deck) = 4
    /\ build.deck[1] # build.deck[2]

\* C9: the best time recorded for a difficulty is only ever set from empty or
\* decreased, also when the recorded time is 0 ms.
C9_BestTimeNeverGrows ==
    [][\A d \in DOMAIN state.bestTimes :
           /\ d \in DOMAIN state'.bestTimes
           /\ state'.bestTimes[d] <= state.bestTimes[d]]_vars

\* C10: from any state, softReset to any difficulty leaves that difficulty,
\* a deck of length 2 * pairs, matched and the flip buffer empty, moves 0,
\* locked and victory false, the clock stopped at zero, and the best times
\* as they were.
C10_ResetRestoresFreshSession ==
    \A level \in DifficultyKey : \A deck \in Decks[level] :
        LET e == softReset(Env, level, deck, now)
        IN  /\ e.state.difficulty = level
            /\ Len(e.state.deck) = 2 * difficulties[level].pairs
            /\ e.state.matched = <<>>
            /\ e.state.flipped = <<>>
            /\ e.state.moves = 0
            /\ ~e.state.locked
            /\ ~e.state.victory
            /\ e.state.runningSince = null
            /\ e.state.elapsedMs = 0
            /\ ~e.timerHandle
            /\ e.state.bestTimes = state.bestTimes

\* A session just reset out of a locked board, with a best time on record.
C10_Witness ==
    /\ \E k \in 1..Len(timers) : timers[k].stale
    /\ state.moves = 0 /\ state.flipped = <<>> /\ ~state.locked
    /\ state.runningSince = null /\ state.elapsedMs = 0
    /\ DOMAIN state.bestTimes # {}

\* A step that resolves the match completing the deck.
CompletingMatch ==
    /\ state'.deck = state.deck
    /\ Len(state'.matched) > Len(state.matched)
    /\ Len(state'.matched) = Len(state'.deck)

\* C11: on the step that resolves the match completing the deck, victory
\* becomes true, runningSince is cleared, the tick interval is removed and
\* elapsedMs is the time since the anchor; once victory is true, elapsedMs
\* changes only on a reset.
C11_VictoryFreezesClock ==
    [][/\ CompletingMatch
              => /\ state'.victory
                 /\ state.runningSince # null
                 /\ state'.runningSince = null
                 /\ ~timerHandle'
                 /\ state'.elapsedMs = now - state.runningSince
       /\ (state.victory /\ state'.elapsedMs # state.elapsedMs) => ResetStep]_vars

\* A game won 1550 ms after its first reveal, the clock stopped at that time.
C11_Witness ==
    /\ state.victory /\ state.elapsedMs = MISMATCH_RESET_DELAY
    /\ state.runningSince = null /\ ~timerHandle

\* C12: the number of matched positions is even after every step; matched
\* grows only by appending exactly two positions, and shrinks only by
\* being emptied on a reset.
C12_MatchedGrowsInPairs ==
    [][/\ Len(state'.matched) % 2 = 0
       /\ Len(state'.matched) > Len(state.matched)
              => /\ Len(state'.matched) = Len(state.matched) + 2
                 /\ SubSeq(state'.matched, 1, Len(state.matched)) = state.matched
       /\ Len(state'.matched) < Len(state.matched)
              => (state'.matched = <<>> /\ ResetStep)]_vars

\* Two pairs matched, one after the other.
C12_Witness ==
    Len(state.matched) = 4 /\ state.moves >= 2

\* C14: in every reachable state no position is both in matched and in the
\* flip buffer.
C14_MatchedAndBufferDisjoint ==
    Range(state.matched) \cap Range(state.flipped) = {}

\* One pair matched and a card of the other pair face up.
C14_Witness ==
    Len(state.matched) = 2 /\ Len(state.flipped) = 1

\* C16 as stated: the first accepted reveal of a session sets runningSince
\* to the current time and elapsedMs to 0; every later accepted reveal of the
\* session leaves runningSince unchanged; runningSince is null from a reset
\* to the next accepted reveal.
C16_EveryLaterRevealKeepsAnchor ==
    [][/\ (RevealAccepted /\ anchor = null)
              => (state'.runningSince = now /\ state'.elapsedMs = 0)
       /\ (RevealAccepted /\ anchor # null)
              => state'.runningSince = state.runningSince
       /\ anchor' = null => state'.runningSince = null]_vars

\* C16, amended: as above, except that the accepted reveal which completes the
\* deck stops the clock and so clears runningSince; no accepted reveal sets
\* runningSince to a new time.
C16_ClockStartsOncePerSession ==
    [][/\ (RevealAccepted /\ anchor = null)
              => (state'.runningSince = now /\ state'.elapsedMs = 0 /\ timerHandle')
       /\ (RevealAccepted /\ anchor # null)
              => IF CompletingMatch
                 THEN state'.runningSince = null
                 ELSE state'.runningSince = state.runningSince
       /\ anchor' = null => (state'.runningSince = null /\ ~timerHandle')]_vars

\* A second turn is under way 1550 ms after the session's first reveal, the
\* clock still anchored at that first reveal.
C16_Witness ==
    /\ anchor = 0 /\ state.runningSince = 0 /\ now = MISMATCH_RESET_DELAY
    /\ state.moves = 1 /\ Len(state.flipped) = 1

\* C17: a tick changes no field of the state but elapsedMs, and neither the
\* interval nor the pending callbacks; the duration left in elapsedMs by the
\* step that reaches victory is the time since the session's first accepted
\* reveal, whichever ticks ran.
C17_TicksOnlyMoveDisplay ==
    [][/\ Tick => /\ state' = [state EXCEPT !.elapsedMs = state'.elapsedMs]
                  /\ timerHandle' = timerHandle /\ timers' = timers
       /\ (~state.victory /\ state'.victory)
              => state'.elapsedMs = now - anchor]_vars

\* A game won 1550 ms after its first reveal.
C17_Witness ==
    state.victory /\ anchor = 0 /\ state.elapsedMs = MISMATCH_RESET_DELAY

\* C13: the flip buffer holds at most two positions in every reachable
\* state, with reveals, resets, mismatch-reset callbacks of this and of
\* earlier sessions, and steps of the auto-solver interleaved.
C13_FlipBufferAtMostTwo ==
    Len(state.flipped) <= 2

\* Two cards are face up while the solver sleeps and a callback of an
\* earlier session is still pending.
C13_Witness ==
    /\ Len(state.flipped) = 2 /\ Sleeping(solver)
    /\ \E k \in 1..Len(timers) : timers[k].stale

\* C15: once victory is true, no step makes it false but a reset: no reveal,
\* no callback, no tick, no step of the auto-solver.
C15_VictoryHoldsUntilReset ==
    [][(state.victory /\ ~state'.victory) => ResetStep]_vars

\* The game is won while the solver sleeps and a mismatch-reset callback is
\* still pending.
C15_Witness ==
    state.victory /\ Sleeping(solver) /\ timers # <<>>

\* C18: a solver call begun on a fresh deck, with no other input, ends, and
\* ends with victory true and moves equal to the number of pairs; no
\* mismatch is resolved during it.  It ends because none of its iterations
\* is a wait on the lock: every iteration then counts towards the guard, and
\* the guard is not used up before victory.
C18_SoloSolverWins ==
    /\ []((solver.pc = "done" /\ solver.solo)
             => (state.victory /\ state.moves = difficulties[state.difficulty].pairs))
    /\ []((Sleeping(solver) /\ solver.solo)
             => (solver.pc # "lockWait" /\ ~state.locked /\ solver.guard < GuardLimit))
    /\ [][solver'.solo => ~MismatchStep]_vars

\* A call on a fresh four-card deck has ended undisturbed.
C18_Witness ==
    solver.pc = "done" /\ solver.solo /\ state.victory /\ Len(state.deck) = 4

\* C19: every solver call ends, whatever the player does meanwhile.
C19_SolverTerminates ==
    Sleeping(solver) ~> (solver.pc = "done")

EnvAfter == [state |-> state', timerHandle |-> timerHandle', timers |-> timers']

\* C20: every step of the auto-solver either leaves state, clock and pending
\* callbacks as they are, or changes them exactly as handleFlip does for
\* some index at that instant.
C20_SolverActsThroughReveal ==
    [][(SolverStart \/ SolverWake)
          => \/ EnvAfter = Env
             \/ \E i \in Positions : EnvAfter = handleFlip(Env, i, now)]_vars

\* The solver has made both reveals of a pair and waits.
C20_Witness ==
    solver.pc = "afterSecond" /\ Len(state.matched) = 2 /\ state.moves = 1


\* The first unmatched position of every symbol that has two or more
\* unmatched positions.
GroupHeads(s) ==
    {i \in Unmatched(s) :
        /\ \A k \in Unmatched(s) : k < i => s.deck[k] # s.deck[i]
        /\ \E j \in Unmatched(s) : j > i /\ s.deck[j] = s.deck[i]}

\* C27: pickNextPair returns the two lowest unmatched positions of the
\* symbol that, among the symbols with two or more unmatched positions, is
\* met first from the left; it returns null exactly when there is no such
\* symbol, which on the decks of the game is never the case before victory.
C27_PickNextPairIsFirstPair ==
    LET pair == pickNextPair(state)
    IN  /\ pair = <<>> <=> GroupHeads(state) = {}
        /\ pair # <<>> =>
               /\ pair[1] = MinOf(GroupHeads(state))
               /\ pair[2] = MinOf({j \in Unmatched(state) :
                                      j > pair[1] /\ state.deck[j] = state.deck[pair[1]]})
        /\ ~state.victory => pair # <<>>

\* Two symbols are still unmatched and the pair picked is not adjacent.
C27_Witness ==
    /\ Cardinality(GroupHeads(state)) = 2
    /\ pickNextPair(state) = <<1, 3>>

\* C24: in every reachable state the flip buffer holds two positions exactly
\* when locked is true.
C24_TwoFlippedIffLocked ==
    (Len(state.flipped) = 2) <=> state.locked

\* The second turn of a session ended in a mismatch, which is on display.
C24_Witness ==
    Len(state.flipped) = 2 /\ state.locked /\ state.moves = 2

\* A step that completes the deck.
VictoryStep == ~state.victory /\ state'.victory

\* C30: no entry of bestTimes is ever removed; bestTimes changes only in the
\* step that completes the deck, and then only at the key of the current
\* difficulty.
C30_BestTimesWrittenOnlyByVictory ==
    [][/\ DOMAIN state.bestTimes \subseteq DOMAIN state'.bestTimes
       /\ state'.bestTimes # state.bestTimes => VictoryStep
       /\ \A d \in DOMAIN state'.bestTimes :
              d # state.difficulty
              => (d \in DOMAIN state.bestTimes
                  /\ state'.bestTimes[d] = state.bestTimes[d])]_vars

\* Best times are recorded for two difficulties.
C30_Witness ==
    Cardinality(DOMAIN state.bestTimes) = 2 /\ state.victory

\* The turn evaluated on this step compares positions first and second:
\* a move is counted and the two are matched together or shown as a mismatch.
TurnCompares(first, second) ==
    /\ state'.moves = state.moves + 1
    /\ \/ state'.matched = state.matched \o <<first, second>>
       \/ state'.flipped = <<first, second>> /\ state'.locked

\* C23: accepted reveals are consumed pairwise in call order.  A position
\* revealed first leaves the flip buffer only in the step of the next
\* accepted reveal, evaluated together with it, or by a reset; no timer
\* callback in between takes it out of the buffer.
C23_RevealsConsumedPairwise ==
    [][(Len(state.flipped) = 1 /\ state'.flipped # state.flipped)
          => \/ ResetStep
             \/ \E i \in Positions :
                    /\ CardClick(i) /\ ~RevealRefused(state, i)
                    /\ TurnCompares(state.flipped[1], i)]_vars

\* A step on which the solver finds the session locked and goes to sleep.
LockWaitBegins == solver'.pc = "lockWait" /\ solver'.wake # solver.wake

\* C28: a solver that finds the session locked sleeps one mismatch-reset
\* interval (FLIP_DURATION + 900 ms) before it looks again, and reveals
\* nothing on that step.
C28_LockWaitIsOneResetInterval ==
    [][LockWaitBegins
          => (solver'.wake = now + MISMATCH_RESET_DELAY /\ EnvAfter = Env)]_vars

\* C22: for every array and every sequence of random draws, shuffle returns
\* an array of the same length holding every element as often as the input
\* does, and the array passed in holds afterwards what it held before.
C22_ShuffleIsPermutationOfCopy ==
    build.stage = "done"
    => /\ Len(build.result) = Len(build.input)
       /\ \A x \in Symbols : Count(build.result, x) = Count(build.input, x)
       /\ build.arr = build.input

\* An array with a repeated symbol came back in another order.
C22_Witness ==
    /\ build.stage = "done" /\ Len(build.input) = MaxLen
    /\ build.result # build.input
    /\ \E x \in Symbols : Count(build.input, x) = 2

\* C21: buildDeck returns no deck for a registry entry whose pair count
\* exceeds the size of its pool.
C21_OversizedConfigBuildsNoDeck ==
    build.stage = "done" => build.config.pairs <= Len(build.config.pool)

\* A step on which the solver's loop is at its head.
SolverAtLoopHead ==
    \/ SolverStart
    \/ SolverWake /\ solver.pc \in {"lockWait", "afterSecond"}

\* C29: a solver that finds no pair to reveal while victory is false leaves
\* its loop and changes no field of the session, the interval or the
\* pending callbacks.
C29_ExhaustionStopsQuietly ==
    [][(/\ SolverAtLoopHead
        /\ ~state.victory /\ ~state.locked /\ pickNextPair(state) = <<>>)
          => (EnvAfter = Env /\ solver'.pc = "done")]_vars

\* The call ended on a deck that offers no pair, victory never set.
C29_Witness ==
    /\ solver.pc = "done" /\ build.stage = "done"
    /\ ~state.victory /\ ~state.locked /\ pickNextPair(state) = <<>>

\* The reveal of position i would be the second of its turn and one of the
\* two positions has no symbol in the deck.
MissingSymbolTurn(i) ==
    /\ ~flipRejected(state, i)
    /\ Len(state.flipped) = 1
    /\ ~HasSymbol(state, state.flipped[1]) \/ ~HasSymbol(state, i)

\* C26: when the second reveal of a turn finds a position without symbol,
\* the turn is aborted: the flip buffer is empty and locked is false
\* afterwards, and moves and matched are what they were before the reveal.
C26_AbortKeepsCounters ==
    [][\A i \in Positions :
           (/\ MissingSymbolTurn(i)
            /\ SolverStart \/ SolverWake \/ CardClick(i)
            /\ EnvAfter = handleFlip(Env, i, now))
           => /\ state'.flipped = <<>>
              /\ ~state'.locked
              /\ state'.moves = state.moves
              /\ state'.matched = state.matched]_vars

\* A step on which the callback of a feedback timer runs.
FeedbackRuns == \E k \in 1..Len(feedback.pending) : FeedbackTimeout(k)

C36_VictoryLeavesNothingOpen ==
    state.victory
    => (state.runningSince = null /\ state.flipped = <<>> /\ ~state.locked)

\* A game won on its second move, with no callback left pending.
C36_Witness ==
    state.victory /\ state.moves = 2 /\ timers = <<>> /\ now > 0

\* C35: matched holds no position twice, and its entries are consecutive
\* pairs of two different positions of the current deck that show the same
\* symbol.
C35_MatchedIsPairsOfOneSymbol ==
    /\ Cardinality(Range(state.matched)) = Len(state.matched)
    /\ Len(state.matched) % 2 = 0
    /\ \A k \in 1..(Len(state.matched) \div 2) :
           LET first  == state.matched[2 * k - 1]
               second == state.matched[2 * k]
           IN  /\ first # second
               /\ HasSymbol(state, first) /\ HasSymbol(state, second)
               /\ state.deck[first] = state.deck[second]

\* Both pairs of a four-card deck are matched, the second pair first.
C35_Witness ==
    Len(state.matched) = 4 /\ state.matched[1] > state.matched[3]

\* C37: a click on the pill of the current difficulty, or on another pill
\* while there is active progress and the confirmation is declined, changes
\* nothing; every other click on a pill resets to that difficulty.
C37_SelectionKeepsProgressUnlessConfirmed ==
    [][\A level \in DifficultyKey, confirmed \in BOOLEAN :
           DifficultyClick(level, confirmed)
           => IF level = state.difficulty \/ (hasActiveProgress(state) /\ ~confirmed)
              THEN EnvAfter = Env
              ELSE /\ state'.difficulty = level
                   /\ FreshDeck(state')
                   /\ state'.deck \in Decks[level]]_vars

\* Progress was given up for another difficulty once, and there is progress
\* again that a further selection could discard.
C37_Witness ==
    /\ state.difficulty = "inferno" /\ DOMAIN state.bestTimes # {}
    /\ hasActiveProgress(state) /\ InputOpen

\* C32: every index in the flip buffer or in matched is a position of the
\* current deck, also when the board is reset to a smaller difficulty between
\* the two reveals of a solver pair in flight.
C32_IndicesAreDeckPositions ==
    \A index \in Range(state.flipped) \cup Range(state.matched) :
        index \in 1..Len(state.deck)

\* C34: the lock is never permanent: whenever locked is true a mismatch-reset
\* callback is pending, and with timers firing fairly a locked session is
\* eventually unlocked, whether or not further input arrives.
C34_LockIsReleased ==
    /\ [](state.locked => timers # <<>>)
    /\ (state.locked ~> ~state.locked)

\* A locked session after the last moment at which input is accepted: only
\* the pending callback can release it.
C34_Witness ==
    state.locked /\ ~InputOpen /\ timers # <<>>

\* The number a sequence of keycaps shows, read as a decimal numeral.
RECURSIVE Shown(_)
Shown(glyphs) ==
    IF glyphs = <<>> THEN 0
    ELSE 10 * Shown(SubSeq(glyphs, 1, Len(glyphs) - 1))
         + (CHOOSE d \in 0..9 : digitEmoji[d + 1] = glyphs[Len(glyphs)])

AllKeycaps(glyphs) == \A k \in 1..Len(glyphs) : glyphs[k] \in Range(digitEmoji)

AllZero(glyphs) == \A k \in 1..Len(glyphs) : glyphs[k] = digitEmoji[1]

\* The fields of a rendered time: what precedes and what follows its sign.
SignAt(glyphs) == CHOOSE k \in 1..Len(glyphs) : glyphs[k] = HeavyEquals
MinutesField(glyphs) == SubSeq(glyphs, 1, SignAt(glyphs) - 1)
SecondsField(glyphs) == SubSeq(glyphs, SignAt(glyphs) + 1, Len(glyphs))

\* C31: both formatters return a rendering for every integer.  A negative
\* value is rendered as zeros, padded to minDigits, and a negative time as
\* 00 and 00; for ms >= 0 the seconds field shows floor(ms/1000) mod 60 in
\* exactly two digits, the minutes field shows floor(ms/60000) in at least
\* two digits, and minutes * 60 + seconds is floor(ms/1000).
C31_FormattersRenderClampedValues ==
    build.stage = "done" =>
        IF build.fn = "toEmojiNumber"
        THEN /\ AllKeycaps(build.result)
             /\ Len(build.result) >= Max(1, build.minDigits)
             /\ Shown(build.result) = Max(0, build.value)
             /\ build.value < 0 => /\ AllZero(build.result)
                                   /\ Len(build.result) = Max(1, build.minDigits)
        ELSE /\ \E k \in 1..Len(build.result) : build.result[k] = HeavyEquals
             /\ LET minutes == MinutesField(build.result)
                    seconds == SecondsField(build.result)
                    ms      == build.value
                IN  /\ AllKeycaps(minutes) /\ AllKeycaps(seconds)
                    /\ Len(seconds) = 2 /\ Len(minutes) >= 2
                    /\ ms < 0 => AllZero(minutes) /\ AllZero(seconds) /\ Len(minutes) = 2
                    /\ ms >= 0 =>
                           /\ Shown(seconds) = (ms \div 1000) % 60
                           /\ Shown(seconds) \in 0..59
                           /\ Shown(minutes) = ms \div 60000
                           /\ Shown(minutes) * 60 + Shown(seconds) = ms \div 1000

\* A time of a hundred minutes or more has been rendered: its minutes field
\* takes three digits and its seconds field is reduced modulo 60.
C31_Witness ==
    /\ build.stage = "done" /\ build.fn = "formatEmojiTime"
    /\ build.value >= 6000000 /\ (build.value \div 1000) % 60 = 59
    /\ Len(build.result) = 6

\* Every callback scheduled so far has run.
NoCallbackPending ==
    timers = <<>> /\ board.pending = <<>> /\ now >= board.quiet

\* C33: whenever no delayed callback is pending, every position shows
\* 'matched' exactly if it is in matched, 'flipped' exactly if it is in the
\* flip buffer, and 'idle' otherwise, also after a reset issued while
\* callbacks of the session before were outstanding.
C33_CardsShowLogicalState ==
    NoCallbackPending =>
        /\ Len(board.cardRefs) = Len(state.deck)
        /\ \A index \in 1..Len(state.deck) :
               board.cardRefs[index] =
                   IF index \in Range(state.matched) THEN "matched"
                   ELSE IF index \in Range(state.flipped) THEN "flipped"
                   ELSE "idle"

=============================================================================
